---- MODULE Spec2Model ----
(***************************************************************************)
(* Walk-in salon queue (src/src/App.js): the "queue" collection of the     *)
(* document store, the customer's handleJoinQueue (two queries and an      *)
(* insert, each a separate remote call), the staff dashboard's             *)
(* handleAction / handleRemoveRequest / executeRemove acting on the last   *)
(* delivered snapshot, the customer status view's entry, position and wait *)
(* computed from delivered snapshots, the "services" collection with the   *)
(* pages that list and delete services, and App's auth state              *)
(* (onAuthStateChanged, renderContent) deciding which page is shown.       *)
(***************************************************************************)
EXTENDS Integers, Sequences, FiniteSets, TLC

\* ------------------------------------------------------------- bounds ---
\* Document ids the store can hand out (addDoc never reuses an id).
MaxEntries == 2
\* handleJoinQueue calls that are ever started.
MaxJoins == 2

\* Documents in a snapshot handed to the customer status view.
MaxSnap == 3

\* onAuthStateChanged callbacks that are ever given a user.
MaxAuth == 2

\* Documents in a snapshot of a sequence of snapshots handed to one view.
MaxSeq == 4

Ids == 1..MaxEntries
Calls == 1..MaxJoins

\* Signed-in customers (user.uid) and staff dashboard sessions.
Users == {"A", "B"}
Staff == {"s1", "s2"}

\* The identities that sign in on the browser whose App state is modelled:
\* the customers and one member of staff.
Identities == Users \cup {"S"}

\* The documents of the "services" collection.
Services0 ==
    { [id |-> "haircut", name |-> "Haircut", duration |-> 30],
      [id |-> "shave", name |-> "Shave", duration |-> 15] }

VARIABLES
    queue,            \* "queue" collection: id -> document, or NoDoc
    used,             \* ids addDoc has handed out so far
    lastTs,           \* last value serverTimestamp() resolved to
    join,             \* handleJoinQueue calls: position and locals of each
    staffQueue,       \* QueueManagementPage: queue (last delivered snapshot)
    confirmingDelete, \* QueueManagementPage: confirmingDelete (0 is null)
    op,               \* per staff session: the write in flight and its outcome
    posSnap,          \* QueueStatusPage: snapshot last given to the position handler
    queuePosition,    \* QueueStatusPage: queuePosition
    estimatedWait,    \* QueueStatusPage: estimatedWait
    queueEntry,       \* QueueStatusPage: queueEntry (NoDoc is null)
    showStyleIdeas,   \* QueueStatusPage of customer A: showStyleIdeas
    ideas,            \* StyleIdeasModal: ideas
    isLoading,        \* StyleIdeasModal: isLoading
    fetchIdeas,       \* StyleIdeasModal: the callGeminiAPI call of fetchIdeas
    services,         \* "services" collection: the documents it holds
    svcList,          \* ServiceSelectionPage: services (last delivered snapshot)
    svcTable,         \* ServiceManagementPage: services (last delivered snapshot)
    svcConfirm,       \* ServiceManagementPage: confirmingDelete ("none" is null)
    accounts,         \* "users" collection: uid -> role, "none" while no document
    user,             \* App: user ("none" is null)
    userData,         \* App: userData (NoData is null)
    route,            \* App: route
    authLoading,      \* App: authLoading
    authCb            \* onAuthStateChanged callbacks that were given a user

vars == <<queue, used, lastTs, join, staffQueue, confirmingDelete, op,
          posSnap, queuePosition, estimatedWait, queueEntry,
          showStyleIdeas, ideas, isLoading, fetchIdeas,
          services, svcList, svcTable, svcConfirm,
          accounts, user, userData, route, authLoading, authCb>>

storeVars == <<queue, used, lastTs>>
staffVars == <<staffQueue, confirmingDelete, op>>
ideaVars == <<showStyleIdeas, ideas, isLoading, fetchIdeas>>
viewVars == <<posSnap, queuePosition, estimatedWait, queueEntry, ideaVars>>
svcVars == <<services, svcList, svcTable, svcConfirm>>
sessionVars == <<accounts, user, userData, route, authLoading, authCb>>

NoDoc == [status |-> "none"]
NoData == [uid |-> "none", role |-> "none"]
NoOp ==
    [kind |-> "none", id |-> 0, newStatus |-> "none", at |-> "none", st |-> "none",
     by |-> "none"]
IdleCall ==
    [pc |-> "idle", user |-> "none", service |-> NoDoc, queueNumber |-> 0,
     made |-> 0, had |-> FALSE]

\* A status filter that lets completed entries through.
ActiveOrCompleted == {"waiting", "in-service", "completed"}

\* where("status", "in", ["waiting", "in-service"])
ActiveStatus == {"waiting", "in-service"}

IsActive(d) == d.status \in ActiveStatus

ActiveIds(q) == {i \in Ids : IsActive(q[i])}

ActiveIdsOf(q, uid) == {i \in ActiveIds(q) : q[i].userId = uid}

\* What the store holds for an id: the document's status, "removed" once the
\* document was deleted, "none" while the id was never handed out.
StoredStatus(i) ==
    IF queue[i] # NoDoc THEN queue[i].status
    ELSE IF i \in used THEN "removed" ELSE "none"

\* The result set ordered by document id alone.
BeforeById(q, i, j) == i <= j

\* orderBy("createdAt"): ascending createdAt, equal values ordered by document id.
Before(q, i, j) ==
    \/ q[i].createdAt < q[j].createdAt
    \/ q[i].createdAt = q[j].createdAt /\ i <= j

RECURSIVE SortIds(_, _)
SortIds(q, S) ==
    IF S = {} THEN <<>>
    ELSE LET m == CHOOSE i \in S : \A j \in S : Before(q, i, j)
         IN <<m>> \o SortIds(q, S \ {m})

\* { id: doc.id, ...doc.data() }
Item(q, i) ==
    [id |-> i, userId |-> q[i].userId, serviceId |-> q[i].serviceId,
     serviceName |-> q[i].serviceName, serviceDuration |-> q[i].serviceDuration,
     status |-> q[i].status, queueNumber |-> q[i].queueNumber,
     createdAt |-> q[i].createdAt]

\* The result set of the ordered active query, as delivered to onSnapshot.
ActiveSnapshot(q) ==
    LET ids == SortIds(q, ActiveIds(q))
    IN [k \in 1..Len(ids) |-> Item(q, ids[k])]

\* ------------------------------------- ServiceSelectionPage.handleJoinQueue ---
\* The existence query with the status filter narrowed to waiting.
ExistingWaitingOnly(q, uid) == {i \in ActiveIdsOf(q, uid) : q[i].status = "waiting"}

\* The existence query without the userId filter.
ExistingAnyCustomer(q, uid) == ActiveIds(q)

\* getDocs(where userId == uid, where status in [waiting, in-service])
ExistingQueueSnapshot(q, uid) == ActiveIdsOf(q, uid)

\* allQueueSnapshot.size + 1
QueueNumber(q) == Cardinality(ActiveIds(q)) + 1

\* The document handed to addDoc.
NewEntry(uid, service, queueNumber, ts) ==
    [userId |-> uid, serviceId |-> service.id, serviceName |-> service.name,
     serviceDuration |-> service.duration, status |-> "waiting",
     queueNumber |-> queueNumber, createdAt |-> ts]

\* serverTimestamp(): the store's commit time, later than every earlier one.
ServerTimestamp == lastTs + 1

\* The id addDoc gives the new document: one no document ever had.
FreshId == CHOOSE i \in Ids \ used : \A j \in Ids \ used : i <= j

\* The customer presses "Join Queue" on a service card: the existence query
\* is sent.  Calls are numbered in the order they start; "had" records, until
\* the existence query comes back empty, whether the store held an active
\* entry of the customer at that moment, "made" the id of the document the
\* call inserted.
JoinQueue(c, uid, service) ==
    /\ join[c].pc = "idle"
    /\ \A b \in Calls : b < c => join[b].pc # "idle"
    /\ join' = [join EXCEPT ![c] = [pc |-> "exists", user |-> uid, service |-> service,
                                    queueNumber |-> 0, made |-> 0,
                                    had |-> ActiveIdsOf(queue, uid) # {}]]
    /\ UNCHANGED <<sessionVars, svcVars, storeVars, staffVars, viewVars>>

\* The existence query is answered: alert and return when it is not empty,
\* otherwise the count query is sent.
JoinExisting(c) ==
    /\ join[c].pc = "exists"
    /\ join' = [join EXCEPT ![c] =
                   IF ExistingQueueSnapshot(queue, join[c].user) # {}
                   THEN [@ EXCEPT !.pc = "already"]
                   ELSE [@ EXCEPT !.pc = "count", !.had = FALSE]]
    /\ UNCHANGED <<sessionVars, svcVars, storeVars, staffVars, viewVars>>

\* The count query is answered: queueNumber is fixed and addDoc is sent.
JoinCount(c) ==
    /\ join[c].pc = "count"
    /\ join' = [join EXCEPT ![c].pc = "add", ![c].queueNumber = QueueNumber(queue)]
    /\ UNCHANGED <<sessionVars, svcVars, storeVars, staffVars, viewVars>>

\* addDoc is applied by the store with document id i and commit time ts; then
\* navigate('/queue-status').
JoinAddAt(c, i, ts) ==
    /\ join[c].pc = "add"
    /\ i \in Ids \ used
    /\ queue' = [queue EXCEPT ![i] =
                   NewEntry(join[c].user, join[c].service, join[c].queueNumber, ts)]
    /\ used' = used \cup {i}
    /\ lastTs' = ts
    /\ join' = [join EXCEPT ![c].pc = "joined", ![c].made = i]
    /\ UNCHANGED <<sessionVars, svcVars, staffVars, viewVars>>

\* addDoc with the ids handed out in increasing order and no two commits at
\* the same time.
JoinAdd(c) ==
    /\ Ids \ used # {}
    /\ JoinAddAt(c, FreshId, ServerTimestamp)

\* ------------------------------------------------- QueueManagementPage ---
\* The rows of the staff table are the items of the last delivered snapshot.
Row(s, i) == {k \in 1..Len(staffQueue[s]) : staffQueue[s][k].id = i}

\* queue.map((item, index) => <tr> ... {index + 1} ... </tr>): the rows of the
\* table with the number shown in their first cell.
TableRows(s) ==
    [k \in 1..Len(staffQueue[s]) |-> [number |-> k, item |-> staffQueue[s][k]]]

\* {confirmingDelete && (<ConfirmModal ... />)}: the modal is a fixed full-screen
\* layer over the table, so the row buttons are out of reach while it shows.
ModalOpen(s) == confirmingDelete[s] # 0

\* item.status === 'waiting' && <button ... handleAction(item.id, 'in-service')>
ShowsStart(item) == item.status = "waiting"

\* A Complete button shown on every row.
ShowsCompleteAny(item) == item.status \in ActiveStatus

\* item.status === 'in-service' && <button ... handleAction(item.id, 'completed')>
ShowsComplete(item) == item.status = "in-service"

\* An update that also resets the entry's queueNumber.
UpdateDocRenumber(q, i, newStatus) ==
    [q EXCEPT ![i].status = newStatus, ![i].queueNumber = 0]

\* updateDoc(docRef, { status: newStatus }) as the store applies it: the write
\* has no precondition other than that the document exists.
UpdateDoc(q, i, newStatus) == [q EXCEPT ![i].status = newStatus]

\* deleteDoc(docRef) as the store applies it.
DeleteDoc(q, i) == [q EXCEPT ![i] = NoDoc]

\* onSnapshot callback of the staff table: setQueue(snapshot.docs.map(...)).
StaffSnapshot(s) ==
    /\ staffQueue[s] # ActiveSnapshot(queue)
    /\ staffQueue' = [staffQueue EXCEPT ![s] = ActiveSnapshot(queue)]
    /\ UNCHANGED <<sessionVars, svcVars, storeVars, join, confirmingDelete, op, viewVars>>

\* handleAction(id, newStatus) up to its await: the write is sent.  "at" records
\* what the store held for the entry when the button was pressed, "by" the
\* identity signed in on the browser ("none" for a dashboard whose sign-in is
\* not followed).
HandleAction(s, i, newStatus) ==
    /\ ~ModalOpen(s)
    /\ op[s].st # "pending"
    /\ op' = [op EXCEPT ![s] = [kind |-> "update", id |-> i, newStatus |-> newStatus,
                                at |-> StoredStatus(i), st |-> "pending",
                                by |-> user]]
    /\ UNCHANGED <<sessionVars, svcVars, storeVars, join, staffQueue, confirmingDelete, viewVars>>

\* The Start button of a row.
Start(s, i) ==
    /\ \E k \in Row(s, i) : ShowsStart(staffQueue[s][k])
    /\ HandleAction(s, i, "in-service")

\* The Complete button of a row.
Complete(s, i) ==
    /\ \E k \in Row(s, i) : ShowsComplete(staffQueue[s][k])
    /\ HandleAction(s, i, "completed")

\* The store applies the updateDoc of handleAction; it rejects the write when
\* the document does not exist.
ApplyUpdate(s) ==
    /\ op[s].st = "pending"
    /\ op[s].kind = "update"
    /\ IF queue[op[s].id] # NoDoc
       THEN /\ queue' = UpdateDoc(queue, op[s].id, op[s].newStatus)
            /\ op' = [op EXCEPT ![s].st = "ok"]
       ELSE /\ queue' = queue
            /\ op' = [op EXCEPT ![s].st = "failed"]
    /\ UNCHANGED <<sessionVars, svcVars, used, lastTs, join, staffQueue, confirmingDelete, viewVars>>

\* The Remove button of a row: handleRemoveRequest(id).
HandleRemoveRequest(s, i) ==
    /\ ~ModalOpen(s)
    /\ Row(s, i) # {}
    /\ confirmingDelete' = [confirmingDelete EXCEPT ![s] = i]
    /\ UNCHANGED <<sessionVars, svcVars, storeVars, join, staffQueue, op, viewVars>>

\* ConfirmModal onCancel.
CancelRemove(s) ==
    /\ confirmingDelete[s] # 0
    /\ confirmingDelete' = [confirmingDelete EXCEPT ![s] = 0]
    /\ UNCHANGED <<sessionVars, svcVars, storeVars, join, staffQueue, op, viewVars>>

\* An executeRemove that deletes the first row shown instead of the selection.
ExecuteRemoveFirstRow(s) ==
    /\ confirmingDelete[s] # 0
    /\ op[s].st # "pending"
    /\ staffQueue[s] # <<>>
    /\ op' = [op EXCEPT ![s] = [kind |-> "delete", id |-> staffQueue[s][1].id,
                                newStatus |-> "removed",
                                at |-> StoredStatus(staffQueue[s][1].id), st |-> "pending",
                                by |-> user]]
    /\ UNCHANGED <<sessionVars, svcVars, storeVars, join, staffQueue, confirmingDelete, viewVars>>

\* ConfirmModal onConfirm: executeRemove up to its await.
ExecuteRemove(s) ==
    /\ confirmingDelete[s] # 0
    /\ op[s].st # "pending"
    /\ op' = [op EXCEPT ![s] = [kind |-> "delete", id |-> confirmingDelete[s],
                                newStatus |-> "removed",
                                at |-> StoredStatus(confirmingDelete[s]), st |-> "pending",
                                by |-> user]]
    /\ UNCHANGED <<sessionVars, svcVars, storeVars, join, staffQueue, confirmingDelete, viewVars>>

\* The store applies the deleteDoc, then executeRemove clears confirmingDelete.
ApplyDelete(s) ==
    /\ op[s].st = "pending"
    /\ op[s].kind = "delete"
    /\ queue' = DeleteDoc(queue, op[s].id)
    /\ op' = [op EXCEPT ![s].st = "ok"]
    /\ confirmingDelete' = [confirmingDelete EXCEPT ![s] = 0]
    /\ UNCHANGED <<sessionVars, svcVars, used, lastTs, join, staffQueue, viewVars>>

\* ----------------------------------------------------- QueueStatusPage ---
\* The forEach step adding the duration of every entry ahead, whatever its status.
PositionStepAnyStatus(acc, data, index, uid) ==
    LET hit == data.userId = uid
        found == acc.found \/ hit
    IN [position |-> IF hit THEN index ELSE acc.position,
        found |-> found,
        waitTime |-> IF ~found
                     THEN acc.waitTime + data.serviceDuration
                     ELSE acc.waitTime]

\* The forEach step taking the callback's 0-based index as the position.
PositionStepZeroBased(acc, data, index, uid) ==
    LET hit == data.userId = uid
        found == acc.found \/ hit
    IN [position |-> IF hit THEN index - 1 ELSE acc.position,
        found |-> found,
        waitTime |-> IF ~found /\ data.status = "waiting"
                     THEN acc.waitTime + data.serviceDuration
                     ELSE acc.waitTime]

\* The forEach of the position subscription, one document at a time.
PositionStep(acc, data, index, uid) ==
    LET hit == data.userId = uid
        found == acc.found \/ hit
    IN [position |-> IF hit THEN index ELSE acc.position,
        found |-> found,
        waitTime |-> IF ~found /\ data.status = "waiting"
                     THEN acc.waitTime + data.serviceDuration
                     ELSE acc.waitTime]

RECURSIVE PositionFold(_, _, _, _)
PositionFold(docs, uid, index, acc) ==
    IF index > Len(docs) THEN acc
    ELSE PositionFold(docs, uid, index + 1, PositionStep(acc, docs[index], index, uid))

\* let position = 0; let waitTime = 0; let found = false; snapshot.docs.forEach(...)
PositionWait(docs, uid) ==
    PositionFold(docs, uid, 1, [position |-> 0, found |-> FALSE, waitTime |-> 0])

\* The callback setting the state only when the customer was found.
PositionSnapshotIfFound(uid, docs) ==
    LET r == PositionWait(docs, uid)
    IN /\ posSnap' = [posSnap EXCEPT ![uid] = docs]
       /\ queuePosition' = [queuePosition EXCEPT ![uid] =
                               IF r.found THEN r.position ELSE @]
       /\ estimatedWait' = [estimatedWait EXCEPT ![uid] =
                               IF r.found THEN r.waitTime ELSE @]
       /\ UNCHANGED <<sessionVars, svcVars, storeVars, join, staffVars, queueEntry,
                      ideaVars>>

\* onSnapshot callback of the position subscription, given snapshot.docs:
\* setQueuePosition(position); setEstimatedWait(waitTime).
PositionSnapshot(uid, docs) ==
    LET r == PositionWait(docs, uid)
    IN /\ posSnap' = [posSnap EXCEPT ![uid] = docs]
       /\ queuePosition' = [queuePosition EXCEPT ![uid] = r.position]
       /\ estimatedWait' = [estimatedWait EXCEPT ![uid] = r.waitTime]
       /\ UNCHANGED <<sessionVars, svcVars, storeVars, join, staffVars, queueEntry,
                      ideaVars>>

\* ------------------------------- the "services" collection and its pages ---
\* onSnapshot callback of ServiceSelectionPage: setServices(servicesData).
ServicesSnapshot(uid) ==
    /\ svcList[uid] # services
    /\ svcList' = [svcList EXCEPT ![uid] = services]
    /\ UNCHANGED <<services, svcTable, svcConfirm, sessionVars, storeVars, join,
                   staffVars, viewVars>>

\* onSnapshot callback of ServiceManagementPage: setServices(...).
ServiceTableSnapshot ==
    /\ svcTable # services
    /\ svcTable' = services
    /\ UNCHANGED <<services, svcList, svcConfirm, sessionVars, storeVars, join,
                   staffVars, viewVars>>

\* The delete button of a row of the services table: handleDeleteRequest(id).
\* The confirm modal covers the table while it shows.
HandleDeleteRequest(id) ==
    /\ svcConfirm = "none"
    /\ \E service \in svcTable : service.id = id
    /\ svcConfirm' = id
    /\ UNCHANGED <<services, svcList, svcTable, sessionVars, storeVars, join,
                   staffVars, viewVars>>

\* ConfirmModal onCancel of the services table.
CancelDelete ==
    /\ svcConfirm # "none"
    /\ svcConfirm' = "none"
    /\ UNCHANGED <<services, svcList, svcTable, sessionVars, storeVars, join,
                   staffVars, viewVars>>

\* executeDelete that also deletes the queue documents of the service.
ExecuteDeleteCascade ==
    /\ svcConfirm # "none"
    /\ services' = {service \in services : service.id # svcConfirm}
    /\ svcConfirm' = "none"
    /\ queue' = [i \in Ids |->
                   IF queue[i] # NoDoc /\ queue[i].serviceId = svcConfirm
                   THEN NoDoc ELSE queue[i]]
    /\ UNCHANGED <<svcList, svcTable, sessionVars, used, lastTs, join,
                   staffVars, viewVars>>

\* ConfirmModal onConfirm: executeDelete; deleteDoc(doc(db, "services", id)) is
\* applied by the store, then setConfirmingDelete(null).
ExecuteDelete ==
    /\ svcConfirm # "none"
    /\ services' = {service \in services : service.id # svcConfirm}
    /\ svcConfirm' = "none"
    /\ UNCHANGED <<svcList, svcTable, sessionVars, storeVars, join,
                   staffVars, viewVars>>

\* The durations a staff edit can give a service.
Durations == {15, 30}

\* Staff save an edited service: the document of the service gets the new
\* duration, nothing else is written.
EditService(id, duration) ==
    /\ svcConfirm = "none"
    /\ \E service \in svcTable : service.id = id
    /\ \E service \in services :
          /\ service.id = id
          /\ service.duration # duration
          /\ services' = (services \ {service})
                            \cup {[service EXCEPT !.duration = duration]}
    /\ UNCHANGED <<svcList, svcTable, svcConfirm, sessionVars, storeVars, join,
                   staffVars, viewVars>>

\* ------------------------------------------- App: auth state and routing ---
StaffRoles == {"owner", "staff"}

\* renderContent(): the page App shows for its state.  The kiosk routes, whose
\* pages are not part of the source, are left out.
RenderContent(loading, u, data, r) ==
    IF loading THEN "spinner"
    ELSE IF u = "none" THEN "login"
    ELSE IF data.role \in StaffRoles THEN "dashboard"
    ELSE IF r = "/queue-status" THEN "queue-status"
    ELSE "services"

Page == RenderContent(authLoading, user, userData, route)

\* The staff session that stands for the dashboard of the modelled browser.
Desk == "s1"

\* QueueManagementPage keeps its state while App renders the dashboard and
\* starts from useState([]) / useState(null) when it is mounted again.
Remount(page) ==
    IF page = "dashboard"
    THEN UNCHANGED <<staffQueue, confirmingDelete>>
    ELSE /\ staffQueue' = [staffQueue EXCEPT ![Desk] = <<>>]
         /\ confirmingDelete' = [confirmingDelete EXCEPT ![Desk] = 0]

\* The onAuthStateChanged callback up to its first await, given currentUser u
\* ("none" is null); r is the route the caller leaves for a signed-in user.
AuthStateChanged(u, r) ==
    /\ IF u # "none"
       THEN /\ Len(authCb) < MaxAuth
            /\ user' = u
            /\ authCb' = Append(authCb, [uid |-> u, pc |-> "getDoc"])
            /\ route' = r
            /\ UNCHANGED <<userData, authLoading>>
       ELSE /\ user' = "none"
            /\ userData' = NoData
            /\ route' = "/login"
            /\ authLoading' = FALSE
            /\ UNCHANGED authCb
    /\ Remount(RenderContent(authLoading', user', userData', route'))
    /\ UNCHANGED <<accounts, storeVars, join, op, viewVars, svcVars>>

\* The first call of the callback after onAuthStateChanged subscribes: the
\* browser's persisted sign-in, or null.
AuthStart(u) ==
    /\ authLoading /\ authCb = <<>>
    /\ AuthStateChanged(u, route)

\* LoginPage: handleGoogleLogin / handleOtpSubmit succeed for identity u; the
\* page then calls navigate('/services').
SignIn(u) ==
    /\ Page = "login"
    /\ AuthStateChanged(u, "/services")

\* A Logout that also deletes the active queue documents of the user.
SignOutLeavingQueue ==
    /\ Page \in {"services", "dashboard"}
    /\ user' = "none"
    /\ userData' = NoData
    /\ route' = "/login"
    /\ authLoading' = FALSE
    /\ queue' = [i \in Ids |-> IF IsActive(queue[i]) /\ queue[i].userId = user
                               THEN NoDoc ELSE queue[i]]
    /\ Remount("login")
    /\ UNCHANGED <<authCb, accounts, used, lastTs, join, op, viewVars, svcVars>>

\* The Logout button of ServiceSelectionPage and of DashboardLayout: signOut(auth).
SignOut ==
    /\ Page \in {"services", "dashboard"}
    /\ AuthStateChanged("none", route)

CallbackDone == [uid |-> "none", pc |-> "done"]

\* The callback resumes after getDoc(userDocRef).
AuthGetDoc(k) ==
    /\ k \in 1..Len(authCb)
    /\ authCb[k].pc = "getDoc"
    /\ LET u == authCb[k].uid
       IN IF accounts[u] # "none"
          THEN /\ userData' = [uid |-> u, role |-> accounts[u]]
               /\ route' = IF accounts[u] \in StaffRoles
                           THEN "/dashboard/queue" ELSE "/services"
               /\ authLoading' = FALSE
               /\ authCb' = [authCb EXCEPT ![k] = CallbackDone]
          ELSE /\ authCb' = [authCb EXCEPT ![k].pc = "setDoc"]
               /\ UNCHANGED <<userData, route, authLoading>>
    /\ Remount(RenderContent(authLoading', user, userData', route'))
    /\ UNCHANGED <<user, accounts, storeVars, join, op, viewVars, svcVars>>

\* The callback resumes after setDoc(userDocRef, newUser).
AuthSetDoc(k) ==
    /\ k \in 1..Len(authCb)
    /\ authCb[k].pc = "setDoc"
    /\ accounts' = [accounts EXCEPT ![authCb[k].uid] = "customer"]
    /\ userData' = [uid |-> authCb[k].uid, role |-> "customer"]
    /\ route' = "/services"
    /\ authLoading' = FALSE
    /\ authCb' = [authCb EXCEPT ![k] = CallbackDone]
    /\ Remount(RenderContent(authLoading', user, userData', route'))
    /\ UNCHANGED <<user, storeVars, join, op, viewVars, svcVars>>

\* The result of the entry subscription's query (userId == uid, active,
\* limit(1), in document id order): the item it holds, or NoDoc when empty.
OwnEntry(q, uid) ==
    IF ActiveIdsOf(q, uid) = {} THEN NoDoc
    ELSE Item(q, CHOOSE i \in ActiveIdsOf(q, uid) : \A j \in ActiveIdsOf(q, uid) : i <= j)

\* onSnapshot callback of the entry subscription: setQueueEntry(entry), or
\* setQueueEntry(null) when the snapshot is empty.
EntrySnapshot(uid, entry) ==
    /\ queueEntry' = [queueEntry EXCEPT ![uid] = entry]
    /\ UNCHANGED <<sessionVars, svcVars, storeVars, join, staffVars,
                   posSnap, queuePosition, estimatedWait, ideaVars>>

\* The entry subscription of a mounted status view is delivered the store's
\* current result.
EntryDeliver(uid) ==
    /\ queueEntry[uid] # OwnEntry(queue, uid)
    /\ EntrySnapshot(uid, OwnEntry(queue, uid))

\* What QueueStatusPage returns for its state.
StatusView(uid) ==
    IF queueEntry[uid] = NoDoc THEN "not-in-queue"
    ELSE IF queueEntry[uid].status = "in-service" THEN "in-service"
    ELSE "waiting"

\* Math.max(0, 100 - ((queuePosition - 1) * 25)), the width of the progress bar.
ProgressWidth(position) ==
    LET w == 100 - ((position - 1) * 25)
    IN IF w > 0 THEN w ELSE 0

\* ------------------------------------- callGeminiAPI and StyleIdeasModal ---
\* What the network gives the fetch of callGeminiAPI: fetch rejects; a
\* response that is not ok; a body that is not JSON; a JSON body without
\* candidates text, with an empty text, or with a text.
FetchOutcomes ==
    { [net |-> "rejected", ok |-> FALSE, json |-> "none", text |-> "none"],
      [net |-> "response", ok |-> FALSE, json |-> "none", text |-> "none"],
      [net |-> "response", ok |-> TRUE, json |-> "invalid", text |-> "none"],
      [net |-> "response", ok |-> TRUE, json |-> "parsed", text |-> "none"],
      [net |-> "response", ok |-> TRUE, json |-> "parsed", text |-> ""],
      [net |-> "response", ok |-> TRUE, json |-> "parsed", text |-> "three ideas"] }

NoOutcome == [net |-> "none", ok |-> FALSE, json |-> "none", text |-> "none"]
NoFetch == [st |-> "idle", outcome |-> NoOutcome]

SorryText == "Sorry, couldn't generate a response."
ErrorText == "An error occurred while fetching suggestions."

\* The try block of callGeminiAPI: what it returns or throws.
TryBlock(o) ==
    IF o.net = "rejected" THEN [kind |-> "throw", value |-> "fetch failed"]
    ELSE IF ~o.ok THEN [kind |-> "throw", value |-> "API call failed"]
    ELSE IF o.json = "invalid" THEN [kind |-> "throw", value |-> "invalid json"]
    ELSE [kind |-> "return",
          value |-> IF o.text \in {"none", ""} THEN SorryText ELSE o.text]

\* callGeminiAPI without its catch block.
CallGeminiAPINoCatch(o) == TryBlock(o)

\* callGeminiAPI(prompt), given what the network does.
CallGeminiAPI(o) ==
    IF TryBlock(o).kind = "throw"
    THEN [kind |-> "return", value |-> ErrorText]
    ELSE TryBlock(o)

\* "Get Style Ideas" on the waiting view of customer A: setShowStyleIdeas(true);
\* the modal mounts and fetchIdeas calls callGeminiAPI.
OpenStyleIdeas ==
    /\ StatusView("A") = "waiting"
    /\ ~showStyleIdeas
    /\ showStyleIdeas' = TRUE
    /\ ideas' = ""
    /\ isLoading' = TRUE
    /\ fetchIdeas' = [st |-> "pending", outcome |-> NoOutcome]
    /\ UNCHANGED <<sessionVars, svcVars, storeVars, join, staffVars,
                   posSnap, queuePosition, estimatedWait, queueEntry>>

\* fetchIdeas resumes after await callGeminiAPI(prompt): setIdeas(result);
\* setIsLoading(false).  A call that throws leaves fetchIdeas rejected.
FetchIdeas(o) ==
    /\ fetchIdeas.st = "pending"
    /\ IF CallGeminiAPI(o).kind = "return"
       THEN /\ ideas' = CallGeminiAPI(o).value
            /\ isLoading' = FALSE
            /\ fetchIdeas' = [st |-> "returned", outcome |-> o]
       ELSE /\ fetchIdeas' = [st |-> "raised", outcome |-> o]
            /\ UNCHANGED <<ideas, isLoading>>
    /\ UNCHANGED <<showStyleIdeas, sessionVars, svcVars, storeVars, join, staffVars,
                   posSnap, queuePosition, estimatedWait, queueEntry>>

\* onClose of the modal: setShowStyleIdeas(false); the modal is unmounted, a
\* later one starts from useState('') / useState(true).
CloseStyleIdeas ==
    /\ showStyleIdeas
    /\ showStyleIdeas' = FALSE
    /\ ideas' = ""
    /\ isLoading' = TRUE
    /\ fetchIdeas' = NoFetch
    /\ UNCHANGED <<sessionVars, svcVars, storeVars, join, staffVars,
                   posSnap, queuePosition, estimatedWait, queueEntry>>

\* The ordered active result sets of n documents: createdAt ascending, every
\* status active, any customer (a customer can hold several entries, see
\* handleJoinQueue) and any service.
RECURSIVE Snapshots(_)
Snapshots(n) ==
    IF n = 0 THEN {<<>>}
    ELSE {Append(docs, [id |-> n, userId |-> uid, serviceId |-> service.id,
                        serviceName |-> service.name,
                        serviceDuration |-> service.duration, status |-> status,
                        queueNumber |-> n, createdAt |-> n]) :
            docs \in Snapshots(n - 1), uid \in Users, service \in Services0,
            status \in ActiveStatus}

SnapshotsUpTo(n) == UNION {Snapshots(k) : k \in 0..n}

Init ==
    /\ queue = [i \in Ids |-> NoDoc]
    /\ used = {}
    /\ lastTs = 0
    /\ join = [c \in Calls |-> IdleCall]
    /\ staffQueue = [s \in Staff |-> <<>>]
    /\ confirmingDelete = [s \in Staff |-> 0]
    /\ op = [s \in Staff |-> NoOp]
    /\ posSnap = [u \in Users |-> <<>>]
    /\ queuePosition = [u \in Users |-> 0]
    /\ estimatedWait = [u \in Users |-> 0]
    /\ queueEntry = [u \in Users |-> NoDoc]
    /\ showStyleIdeas = FALSE
    /\ ideas = ""
    /\ isLoading = TRUE
    /\ fetchIdeas = NoFetch
    /\ services = Services0
    /\ svcList = [u \in Users |-> {}]
    /\ svcTable = {}
    /\ svcConfirm = "none"
    /\ accounts = [u \in Identities |-> IF u = "S" THEN "staff" ELSE "none"]
    /\ user = "none"
    /\ userData = NoData
    /\ route = "/login"
    /\ authLoading = TRUE
    /\ authCb = <<>>

JoinNext ==
    \/ \E c \in Calls, uid \in Users, service \in Services0 : JoinQueue(c, uid, service)
    \/ \E c \in Calls : JoinExisting(c)
    \/ \E c \in Calls : JoinCount(c)
    \/ \E c \in Calls : JoinAdd(c)

\* No handleJoinQueue call is between its first query and its end.
NoJoinInFlight == \A c \in Calls : join[c].pc \in {"idle", "joined", "already"}

Haircut == CHOOSE service \in Services0 : service.id = "haircut"

\* Customers who join one after the other, all for the same service.
JoinNextSeq ==
    \/ \E c \in Calls, uid \in Users : NoJoinInFlight /\ JoinQueue(c, uid, Haircut)
    \/ \E c \in Calls : JoinExisting(c)
    \/ \E c \in Calls : JoinCount(c)
    \/ \E c \in Calls : JoinAdd(c)

\* A staff dashboard on which Start and Complete are pressed.
StaffNextUpdate(s) ==
    \/ StaffSnapshot(s)
    \/ \E i \in Ids : Start(s, i)
    \/ \E i \in Ids : Complete(s, i)
    \/ ApplyUpdate(s)

\* A staff dashboard on which only Remove is pressed.
StaffNextRemove(s) ==
    \/ StaffSnapshot(s)
    \/ \E i \in Ids : HandleRemoveRequest(s, i)
    \/ CancelRemove(s)
    \/ ExecuteRemove(s)
    \/ ApplyDelete(s)

\* Concurrent handleJoinQueue calls, and one staff dashboard that starts and
\* completes entries.
Next ==
    \/ JoinNext
    \/ StaffNextUpdate("s1")

Spec == Init /\ [][Next]_vars

\* Customer A joining again and again, one call after the other.
JoinNextOne ==
    \/ \E c \in Calls : NoJoinInFlight /\ JoinQueue(c, "A", Haircut)
    \/ \E c \in Calls : JoinExisting(c)
    \/ \E c \in Calls : JoinCount(c)
    \/ \E c \in Calls : JoinAdd(c)

\* One customer and two staff dashboards that start and complete entries.
NextStaff ==
    \/ JoinNextOne
    \/ \E s \in Staff : StaffNextUpdate(s)

SpecStaff == Init /\ [][NextStaff]_vars

\* Customers joining one after the other; one dashboard starts and completes
\* entries, the other removes them.
NextRemove ==
    \/ JoinNextSeq
    \/ StaffNextUpdate("s1")
    \/ StaffNextRemove("s2")

SpecRemove == Init /\ [][NextRemove]_vars

AllSnapshots == SnapshotsUpTo(MaxSnap)

\* The position handler of customer A's status view applied to the first
\* snapshot it is given after the view is mounted.
NextEst ==
    \E docs \in AllSnapshots : posSnap["A"] = <<>> /\ PositionSnapshot("A", docs)

SpecEst == Init /\ [][NextEst]_vars

\* A position subscription that is delivered its first result set only.
PositionDeliverOnce(uid) ==
    /\ posSnap[uid] = <<>>
    /\ posSnap[uid] # ActiveSnapshot(queue)
    /\ PositionSnapshot(uid, ActiveSnapshot(queue))

\* The position subscription of a mounted status view is delivered the
\* store's current result set.
PositionDeliver(uid) ==
    /\ posSnap[uid] # ActiveSnapshot(queue)
    /\ PositionSnapshot(uid, ActiveSnapshot(queue))

\* Concurrent handleJoinQueue calls, and customer A's status view following
\* the store.
NextView ==
    \/ JoinNext
    \/ PositionDeliver("A")

SpecView == Init /\ [][NextView]_vars

Shave == CHOOSE service \in Services0 : service.id = "shave"

\* Customer A choosing Haircut and customer B choosing Shave, one call after
\* the other; one staff dashboard that starts and completes entries; the
\* status views of both customers following the store.
NextScenario ==
    \/ \E c \in Calls : NoJoinInFlight /\ JoinQueue(c, "A", Haircut)
    \/ \E c \in Calls : NoJoinInFlight /\ JoinQueue(c, "B", Shave)
    \/ \E c \in Calls : JoinExisting(c)
    \/ \E c \in Calls : JoinCount(c)
    \/ \E c \in Calls : JoinAdd(c)
    \/ StaffNextUpdate("s1")
    \/ \E uid \in Users : PositionDeliver(uid)

SpecScenario == Init /\ [][NextScenario]_vars

\* The buttons of the queue table of the modelled browser's dashboard.
DeskNext ==
    \/ StaffSnapshot(Desk)
    \/ \E i \in Ids : Start(Desk, i)
    \/ \E i \in Ids : Complete(Desk, i)
    \/ \E i \in Ids : HandleRemoveRequest(Desk, i)
    \/ CancelRemove(Desk)
    \/ ExecuteRemove(Desk)

\* One browser on which identities sign in and out, its dashboard reachable
\* only while App renders it; customer A joins from another device.
NextAuth ==
    \/ \E u \in Identities \cup {"none"} : AuthStart(u)
    \/ \E u \in Identities : SignIn(u)
    \/ SignOut
    \/ \E k \in 1..MaxAuth : AuthGetDoc(k)
    \/ \E k \in 1..MaxAuth : AuthSetDoc(k)
    \/ JoinNextOne
    \/ Page = "dashboard" /\ DeskNext
    \/ ApplyUpdate(Desk)
    \/ ApplyDelete(Desk)

SpecAuth == Init /\ [][NextAuth]_vars

\* The commit times serverTimestamp() can resolve to: never earlier than the
\* last one, and possibly equal to it.
ServerTimestamps == {ts \in {lastTs, lastTs + 1} : ts >= 1}

\* Concurrent handleJoinQueue calls, the store choosing any unused document
\* id and any commit time; a dashboard and customer A's status view are
\* delivered the ordered result set.
NextTies ==
    \/ \E c \in Calls, uid \in Users : JoinQueue(c, uid, Haircut)
    \/ \E c \in Calls : JoinExisting(c)
    \/ \E c \in Calls : JoinCount(c)
    \/ \E c \in Calls, i \in Ids, ts \in ServerTimestamps : JoinAddAt(c, i, ts)
    \/ StaffSnapshot("s1")
    \/ PositionDeliver("A")

SpecTies == Init /\ [][NextTies]_vars

\* The ordered active result sets of n documents in which the service
\* alternates with the rank.
RECURSIVE SeqSnapshots(_)
SeqSnapshots(n) ==
    IF n = 0 THEN {<<>>}
    ELSE LET service == IF n % 2 = 1 THEN Haircut ELSE Shave
         IN {Append(docs, [id |-> n, userId |-> uid, serviceId |-> service.id,
                           serviceName |-> service.name,
                           serviceDuration |-> service.duration, status |-> status,
                           queueNumber |-> n, createdAt |-> n]) :
               docs \in SeqSnapshots(n - 1), uid \in Users, status \in ActiveStatus}

AllSeqSnapshots == UNION {SeqSnapshots(n) : n \in 0..MaxSeq}

\* The position handler of customer A's status view given one snapshot after
\* another, each one any result set whatever the ones before it.
NextSeq ==
    \E docs \in AllSeqSnapshots : PositionSnapshot("A", docs)

SpecSeq == Init /\ [][NextSeq]_vars

\* Customer A joining, a dashboard starting and completing entries, and the
\* two subscriptions of A's status view, each delivered on its own.
NextStatus ==
    \/ JoinNextOne
    \/ StaffNextUpdate("s1")
    \/ EntryDeliver("A")
    \/ PositionDeliver("A")

SpecStatus == Init /\ [][NextStatus]_vars

\* The services table of a dashboard.
ServiceNext ==
    \/ ServiceTableSnapshot
    \/ \E service \in Services0 : HandleDeleteRequest(service.id)
    \/ CancelDelete
    \/ ExecuteDelete
    \/ \E service \in Services0, duration \in Durations :
          EditService(service.id, duration)

\* Customer A joining, one call after the other, from the service cards the
\* page holds, while staff delete and edit services.
NextServices ==
    \/ ServicesSnapshot("A")
    \/ \E c \in Calls, service \in svcList["A"] :
          NoJoinInFlight /\ JoinQueue(c, "A", service)
    \/ \E c \in Calls : JoinExisting(c)
    \/ \E c \in Calls : JoinCount(c)
    \/ \E c \in Calls : JoinAdd(c)
    \/ ServiceNext

SpecServices == Init /\ [][NextServices]_vars

\* Customers joining one after the other, and one dashboard on which every
\* button is pressed.
NextFrame ==
    \/ JoinNextSeq
    \/ StaffNextUpdate("s1")
    \/ StaffNextRemove("s1")

SpecFrame == Init /\ [][NextFrame]_vars

\* Customers joining one after the other; one dashboard starts entries while
\* the other removes them.
NextConfirm ==
    \/ JoinNextSeq
    \/ StaffSnapshot("s1")
    \/ \E i \in Ids : Start("s1", i)
    \/ ApplyUpdate("s1")
    \/ StaffNextRemove("s2")

SpecConfirm == Init /\ [][NextConfirm]_vars

\* One browser on which customer A signs in, joins from the service page
\* with the signed-in identity, and signs out; a dashboard on another device
\* starts and completes entries.
NextSession ==
    \/ \E u \in {"A", "none"} : AuthStart(u)
    \/ SignIn("A")
    \/ SignOut
    \/ \E k \in 1..MaxAuth : AuthGetDoc(k)
    \/ \E k \in 1..MaxAuth : AuthSetDoc(k)
    \/ \E c \in Calls :
          /\ Page = "services" /\ user \in Users /\ NoJoinInFlight
          /\ JoinQueue(c, user, Haircut)
    \/ \E c \in Calls : JoinExisting(c)
    \/ \E c \in Calls : JoinCount(c)
    \/ \E c \in Calls : JoinAdd(c)
    \/ StaffNextUpdate("s2")

SpecSession == Init /\ [][NextSession]_vars

\* Customers joining one after the other, customer A's status view, and its
\* style ideas modal with the network free to answer in any way.
NextIdeas ==
    \/ JoinNextSeq
    \/ EntryDeliver("A")
    \/ PositionDeliver("A")
    \/ OpenStyleIdeas
    \/ \E o \in FetchOutcomes : FetchIdeas(o)
    \/ CloseStyleIdeas

SpecIdeas == Init /\ [][NextIdeas]_vars

\* A listener whose result set differs from the one it was last given is
\* called with the current one.
Deliver ==
    \/ StaffSnapshot("s1")
    \/ \E uid \in Users : PositionDeliver(uid)

\* Customer A joining, one dashboard starting and completing entries, and the
\* listeners of the dashboard and of the status views of A and B.
NextLive ==
    \/ JoinNextOne
    \/ StaffNextUpdate("s1")
    \/ \E uid \in Users : PositionDeliver(uid)

\* The same with deliveries that do not stop while some listener is still
\* behind the store.
SpecLive == Init /\ [][NextLive]_vars /\ WF_vars(Deliver)

\* ----------------------------------------------------------- properties ---
Finished == {"joined", "already"}

\* The staff action a write in flight stands for.
ActionOf(o) ==
    IF o.kind = "delete" THEN "Remove"
    ELSE IF o.newStatus = "in-service" THEN "Start" ELSE "Complete"

\* The legality table of the state machine.
Legal(status, action) ==
    \/ action = "Start" /\ status = "waiting"
    \/ action = "Complete" /\ status = "in-service"
    \/ action = "Remove" /\ status \in ActiveStatus

\* The write of session s is resolved in this step.
Resolves(s) == op[s].st = "pending" /\ op'[s].st # "pending"

\* C1: in every reachable state each customer has at most one entry whose
\* status is waiting or in-service.
C1_AtMostOneActive ==
    \A uid \in Users : Cardinality(ActiveIdsOf(queue, uid)) <= 1

\* C2: of the Join calls one customer has running at once only one succeeds:
\* a call that ends while the store holds an active entry of its customer
\* (the one a concurrent call of the same customer created) ends with
\* AlreadyQueued and creates nothing.
C2_OneJoinSucceeds ==
    [][\A c \in Calls :
          ( /\ join[c].pc \notin Finished
            /\ join'[c].pc \in Finished
            /\ ActiveIdsOf(queue, join[c].user) # {} )
          => (join'[c].pc = "already" /\ queue' = queue)]_vars

\* C3: when two staff sessions both press Start on the same entry while the
\* store holds it as waiting, exactly one of the two writes succeeds and the
\* other fails.
C3_OneStartWins ==
    \A s, t \in Staff :
        ( /\ s # t
          /\ ActionOf(op[s]) = "Start" /\ ActionOf(op[t]) = "Start"
          /\ op[s].kind = "update" /\ op[t].kind = "update"
          /\ op[s].id = op[t].id
          /\ op[s].at = "waiting" /\ op[t].at = "waiting"
          /\ op[s].st # "pending" /\ op[t].st # "pending" )
        => ((op[s].st = "ok") # (op[t].st = "ok"))

\* C4: a staff write is applied only when its action is legal for the status
\* the store holds at the moment of the write (Start on waiting, Complete on
\* in-service, Remove on waiting or in-service); any other write fails and
\* changes nothing.
C4_LegalityTable ==
    [][\A s \in Staff :
          Resolves(s) =>
             IF Legal(StoredStatus(op[s].id), ActionOf(op[s]))
             THEN op'[s].st = "ok"
             ELSE op'[s].st = "failed" /\ queue' = queue]_vars

\* C5: an entry the store holds as completed or removed never has its status
\* changed again.
C5_TerminalStatus ==
    [][\A i \in Ids :
          StoredStatus(i) \in {"completed", "removed"}
          => StoredStatus(i)' = StoredStatus(i)]_vars

\* C6: when a Start or Complete of one staff session and a Remove of another
\* are both sent for the same entry while the store holds it in the status
\* the first relies on, exactly one of the two writes is applied.
C6_OneConflictingWins ==
    \A s, t \in Staff :
        ( /\ s # t
          /\ op[s].kind = "update" /\ op[t].kind = "delete"
          /\ op[s].id = op[t].id
          /\ Legal(op[s].at, ActionOf(op[s]))
          /\ op[t].at = op[s].at
          /\ op[s].st # "pending" /\ op[t].st # "pending" )
        => ((op[s].st = "ok") # (op[t].st = "ok"))

\* C7: the stored status of an entry never changes from waiting directly to
\* completed.
C7_NoWaitingToCompleted ==
    [][\A i \in Ids :
          StoredStatus(i) = "waiting" => StoredStatus(i)' # "completed"]_vars

\* C7 witness: a Complete was applied, to an entry that had left waiting.
C7_Witness ==
    \E s \in Staff :
        /\ ActionOf(op[s]) = "Complete" /\ op[s].kind = "update"
        /\ op[s].st = "ok"
        /\ op[s].at = "in-service"
        /\ StoredStatus(op[s].id) = "completed"

\* C8: a Join whose existence query is answered while the customer has an
\* active entry ends with AlreadyQueued, leaves the store unchanged, and
\* inserts nothing afterwards.
C8_AlreadyQueued ==
    [][\A c \in Calls :
          /\ ( /\ join[c].pc = "exists"
               /\ join'[c].pc # "exists"
               /\ ActiveIdsOf(queue, join[c].user) # {} )
             => (join'[c].pc = "already" /\ join'[c].made = 0 /\ queue' = queue)
          /\ join[c].pc = "already" => join'[c] = join[c]]_vars

\* C8 witness: a call that started when its customer's entry was already in
\* the store has ended with AlreadyQueued, and that entry is still active.
C8_Witness ==
    \E c, b \in Calls :
        /\ join[c].pc = "already" /\ join[c].made = 0 /\ join[c].had
        /\ join[b].pc = "joined" /\ join[b].user = join[c].user
        /\ join[b].made \in ActiveIdsOf(queue, join[c].user)

\* C9: a successful Join inserts exactly one document, with status waiting,
\* the caller's id, the chosen service's id, name and duration, and a
\* queueNumber equal to the number of active entries at that moment plus one.
C9_JoinInsertsEntry ==
    [][\A c \in Calls :
          (join[c].pc = "add" /\ join'[c].pc = "joined") =>
             LET i == join'[c].made
             IN /\ queue[i] = NoDoc
                /\ \A j \in Ids \ {i} : queue'[j] = queue[j]
                /\ queue'[i].status = "waiting"
                /\ queue'[i].userId = join[c].user
                /\ queue'[i].serviceId = join[c].service.id
                /\ queue'[i].serviceName = join[c].service.name
                /\ queue'[i].serviceDuration = join[c].service.duration
                /\ queue'[i].queueNumber = Cardinality(ActiveIds(queue)) + 1]_vars

\* The customer's entry of a snapshot: the first one in rank order.
EntryRank(docs, uid) ==
    CHOOSE k \in 1..Len(docs) :
        /\ docs[k].userId = uid
        /\ \A j \in 1..(k - 1) : docs[j].userId # uid

RECURSIVE SumDuration(_, _)
SumDuration(docs, ranks) ==
    IF ranks = {} THEN 0
    ELSE LET k == CHOOSE r \in ranks : TRUE
         IN docs[k].serviceDuration + SumDuration(docs, ranks \ {k})

\* The waiting entries strictly ahead of rank k.
WaitingAhead(docs, k) == {j \in 1..(k - 1) : docs[j].status = "waiting"}

InSnapshot(docs, uid) == \E k \in 1..Len(docs) : docs[k].userId = uid

\* C10: the estimated wait the status view holds is the sum of serviceDuration
\* over the waiting entries strictly ahead of the customer's entry in the
\* snapshot it was computed from; in-service entries ahead and entries at or
\* behind the customer's rank add nothing.
C10_WaitIsWaitingAhead ==
    \A uid \in Users :
        InSnapshot(posSnap[uid], uid) =>
            estimatedWait[uid] =
                SumDuration(posSnap[uid],
                            WaitingAhead(posSnap[uid], EntryRank(posSnap[uid], uid)))

\* C10 witness: the view was computed from a snapshot in which a waiting entry
\* and an in-service entry are ahead of the customer's own entry.
C10_Witness ==
    LET docs == posSnap["A"]
    IN /\ Len(docs) = 3
       /\ InSnapshot(docs, "A")
       /\ EntryRank(docs, "A") = 3
       /\ {docs[1].status, docs[2].status} = ActiveStatus
       /\ estimatedWait["A"] > 0
       /\ estimatedWait["A"] < docs[1].serviceDuration + docs[2].serviceDuration

\* C11: the position the status view holds is the 1-based rank, in createdAt
\* order, of the customer's entry in the snapshot it was computed from, and it
\* is 0 exactly when that snapshot holds no entry of the customer.
C11_PositionIsRank ==
    \A uid \in Users :
        IF InSnapshot(posSnap[uid], uid)
        THEN queuePosition[uid] = EntryRank(posSnap[uid], uid)
        ELSE queuePosition[uid] = 0

\* The status view of uid was computed from the store's current result set.
Fresh(uid) == posSnap[uid] = ActiveSnapshot(queue)

\* The store holds a Haircut entry of A as its only active entry, waiting.
OnlyAJoined ==
    \E a \in Ids :
        /\ ActiveIds(queue) = {a}
        /\ queue[a].userId = "A" /\ queue[a].serviceId = "haircut"
        /\ queue[a].status = "waiting"

\* The store holds a Haircut entry of A with status sa and a later, waiting
\* Shave entry of B, and no other active entry.
ABJoined(sa) ==
    \E a, b \in Ids :
        /\ queue[a] # NoDoc /\ queue[b] # NoDoc
        /\ queue[a].userId = "A" /\ queue[a].serviceId = "haircut"
        /\ queue[a].status = sa
        /\ queue[b].userId = "B" /\ queue[b].serviceId = "shave"
        /\ queue[b].status = "waiting"
        /\ queue[a].createdAt < queue[b].createdAt
        /\ ActiveIds(queue) \subseteq {a, b}

Shows(uid, position, wait) ==
    queuePosition[uid] = position /\ estimatedWait[uid] = wait

\* C12: with Haircut 30 and Shave 15: after A joins Haircut, A is shown rank 1
\* and wait 0; after B then joins Shave, B is shown rank 2 and wait 30; after
\* Start on A's entry, B is shown rank 2 and wait 0; after Complete on A's
\* entry, B is shown rank 1 and wait 0.
C12_Scenario ==
    /\ (OnlyAJoined /\ Fresh("A")) => Shows("A", 1, 0)
    /\ (ABJoined("waiting") /\ Fresh("B")) => Shows("B", 2, 30)
    /\ (ABJoined("in-service") /\ Fresh("B")) => Shows("B", 2, 0)
    /\ (ABJoined("completed") /\ Fresh("B")) => Shows("B", 1, 0)

\* C12 witness: the dashboard's Complete on A's entry was applied while B
\* waits behind it, and B's view, delivered the result, shows rank 1, wait 0.
C12_Witness ==
    /\ ABJoined("completed") /\ Fresh("B") /\ Shows("B", 1, 0)
    /\ op["s1"].kind = "update" /\ op["s1"].newStatus = "completed"
    /\ op["s1"].st = "ok" /\ queue[op["s1"].id].userId = "A"

\* The account role of an identity.
RoleOf(u) == IF u = "none" THEN "none" ELSE accounts[u]

\* C13: no Start, Complete or Remove is sent from the browser while the
\* identity signed in on it has a role other than staff or owner, and no
\* write sent by such an identity changes the store.
C13_OnlyStaffActs ==
    [][/\ (op[Desk].st # "pending" /\ op'[Desk].st = "pending")
          => RoleOf(user) \in StaffRoles
       /\ (Resolves(Desk) /\ queue' # queue)
          => RoleOf(op[Desk].by) \in StaffRoles]_vars

\* A delivered list is strictly ascending in (createdAt, id): later ranks have
\* a later createdAt, or the same createdAt and a larger document id.
RankOrdered(docs) ==
    \A j, k \in 1..Len(docs) :
        j < k =>
            \/ docs[j].createdAt < docs[k].createdAt
            \/ docs[j].createdAt = docs[k].createdAt /\ docs[j].id < docs[k].id

\* C14: every list delivered to a dashboard or a status view is in ascending
\* createdAt order with equal createdAt values ordered by document id, so no
\* entry appears at two ranks and no two entries share a rank.
C14_RankTotalOrder ==
    /\ \A s \in Staff : RankOrdered(staffQueue[s])
    /\ \A uid \in Users : RankOrdered(posSnap[uid])

\* C14 witness: a dashboard was delivered two entries with the same createdAt,
\* the one inserted later having the smaller document id.
C14_Witness ==
    /\ Len(staffQueue["s1"]) = 2
    /\ staffQueue["s1"][1].createdAt = staffQueue["s1"][2].createdAt
    /\ staffQueue["s1"][1].queueNumber > staffQueue["s1"][2].queueNumber

\* The ranks of a snapshot that hold an entry of uid.
RanksOf(docs, uid) == {k \in 1..Len(docs) : docs[k].userId = uid}

\* Position and wait written as functions of one snapshot: the last rank of
\* the customer (0 when there is none), and the durations of the waiting
\* entries before the customer's first rank (all of them when there is none).
PositionOf(docs, uid) ==
    IF RanksOf(docs, uid) = {} THEN 0
    ELSE CHOOSE k \in RanksOf(docs, uid) : \A j \in RanksOf(docs, uid) : j <= k

WaitOf(docs, uid) ==
    LET first == IF RanksOf(docs, uid) = {} THEN Len(docs) + 1
                 ELSE EntryRank(docs, uid)
    IN SumDuration(docs, WaitingAhead(docs, first))

\* C15: whatever snapshots the view was given before, the position and the
\* wait it holds are those functions of the snapshot it was given last, so
\* giving it the same snapshot again leaves them as they are.
C15_FunctionOfSnapshot ==
    \A uid \in Users :
        /\ queuePosition[uid] = PositionOf(posSnap[uid], uid)
        /\ estimatedWait[uid] = WaitOf(posSnap[uid], uid)

\* C15 witness: the view holds the values of a snapshot without the customer
\* in which entries are waiting (position 0 and their summed durations), a
\* snapshot that replaces the values of any snapshot given before it.
C15_Witness ==
    /\ Len(posSnap["A"]) = MaxSeq
    /\ ~InSnapshot(posSnap["A"], "A")
    /\ queuePosition["A"] = 0
    /\ estimatedWait["A"] > 0

\* C16: whenever the waiting view is rendered, the width of the progress bar,
\* max(0, 100 - (position - 1) * 25), lies between 0 and 100; this includes the
\* states in which the entry subscription has delivered the entry while the
\* position is still its initial 0.
C16_ProgressInRange ==
    \A uid \in Users :
        StatusView(uid) = "waiting" =>
            ProgressWidth(queuePosition[uid]) \in 0..100

\* The "services" collection holds a document with this id.
ServiceExists(id) == \E service \in services : service.id = id

\* C17: every document handleJoinQueue inserts carries the id of a service the
\* store holds at the moment of the insert; a call for a service that was
\* deleted after the customer's list was delivered inserts nothing.
C17_ServiceExistsAtInsert ==
    [][\A c \in Calls :
          (join[c].pc = "add" /\ join'[c].pc = "joined")
          => ServiceExists(join[c].service.id)]_vars

\* C20: a step in which staff delete or edit a service leaves every queue
\* document as it is, and the serviceName and serviceDuration of an entry stay
\* the ones the Join copied from the service card.
C20_ServiceChangeKeepsEntries ==
    [][/\ services' # services => queue' = queue
       /\ \A c \in Calls :
             (join'[c].pc = "joined" /\ queue'[join'[c].made] # NoDoc)
             => /\ queue'[join'[c].made].serviceName = join'[c].service.name
                /\ queue'[join'[c].made].serviceDuration = join'[c].service.duration]_vars

\* C20 witness: the store holds an entry whose service was given another
\* duration since; the entry still carries the duration copied at the Join.
C20_Witness ==
    \E c \in Calls :
        /\ join[c].pc = "joined" /\ queue[join[c].made] # NoDoc
        /\ queue[join[c].made].serviceDuration = join[c].service.duration
        /\ \E service \in services :
              /\ service.id = queue[join[c].made].serviceId
              /\ service.duration # queue[join[c].made].serviceDuration
        /\ svcList[join[c].user] = services

\* C18: a staff write whose document the store no longer holds fails and
\* leaves the store as it is: no document is created and none is changed.
C18_MissingEntryFails ==
    [][\A s \in Staff :
          (Resolves(s) /\ queue[op[s].id] = NoDoc)
          => (op'[s].st = "failed" /\ queue' = queue)]_vars

\* C19: a document the store holds is, after any step, either deleted or the
\* same document except possibly for its status (userId, service fields,
\* queueNumber and createdAt never change), and a staff write leaves every
\* document other than its own unchanged.
C19_OnlyStatusChanges ==
    [][/\ \A i \in Ids :
             queue[i] # NoDoc =>
                \/ queue'[i] = NoDoc
                \/ [queue'[i] EXCEPT !.status = queue[i].status] = queue[i]
       /\ \A s \in Staff :
             Resolves(s) => \A j \in Ids \ {op[s].id} : queue'[j] = queue[j]]_vars

\* C19 witness: a Complete was applied to one entry while the store holds
\* another, still waiting with the queueNumber its Join gave it.
C19_Witness ==
    /\ op["s1"].kind = "update" /\ op["s1"].st = "ok"
    /\ StoredStatus(op["s1"].id) = "completed"
    /\ \E c \in Calls :
          /\ join[c].pc = "joined" /\ join[c].made # op["s1"].id
          /\ queue[join[c].made] # NoDoc
          /\ queue[join[c].made].status = "waiting"
          /\ queue[join[c].made].queueNumber = join[c].queueNumber
          /\ queue[join[c].made].userId = join[c].user

\* C21: a step in which the browser's user signs out leaves every queue
\* document as it is, and a document the store holds changes only in a step
\* in which a staff write is applied.
C21_SignOutKeepsQueue ==
    [][/\ (user # "none" /\ user' = "none") => queue' = queue
       /\ \A i \in Ids :
             (queue[i] # NoDoc /\ queue'[i] # queue[i])
             => \E s \in Staff : Resolves(s) /\ op[s].id = i]_vars

\* C21 witness: nobody is signed in on the browser after a sign-in and a
\* Join made there, and the store still holds the waiting entry of that Join.
C21_Witness ==
    /\ user = "none" /\ Page = "login"
    /\ \E c \in Calls :
          /\ join[c].pc = "joined"
          /\ queue[join[c].made] # NoDoc
          /\ queue[join[c].made].status = "waiting"
          /\ queue[join[c].made].userId = join[c].user

\* The outcomes in which the text generation failed.
Failed(o) == o.net = "rejected" \/ ~o.ok \/ o.json = "invalid" \/ o.text \in {"none", ""}

\* C22: callGeminiAPI never raises: whatever the network does the call
\* returns, and after a failure what it returned, the text the modal shows, is
\* one of the two fallback strings; the step in which it returns leaves the
\* queue collection, the Join calls and the staff writes as they are.
C22_FallbackNeverRaised ==
    [][/\ fetchIdeas'.st # "raised"
       /\ (fetchIdeas'.st = "returned" /\ Failed(fetchIdeas'.outcome))
          => (ideas' \in {SorryText, ErrorText} /\ ~isLoading')
       /\ fetchIdeas' # fetchIdeas
          => (queue' = queue /\ join' = join /\ op' = op)]_vars

\* C22 witness: the fetch was rejected, the modal shows the fallback string,
\* and customer B's Join has inserted an entry behind the one of A.
C22_Witness ==
    /\ fetchIdeas.st = "returned" /\ fetchIdeas.outcome.net = "rejected"
    /\ ideas = ErrorText /\ ~isLoading
    /\ \E c \in Calls : join[c].pc = "joined" /\ join[c].user = "B"
                        /\ queue[join[c].made].createdAt > queueEntry["A"].createdAt

\* C23: a Join ends with AlreadyQueued only when the store holds an active
\* entry of its own customer when the existence query is answered, so never
\* because of another customer's entry; a Join that passes inserts exactly one
\* document, for its own customer; and the active entries, those of calls
\* that ran concurrently included, are at distinct ranks.
C23_ConcurrentJoinsSucceed ==
    [][/\ \A c \in Calls :
             /\ (join[c].pc = "exists" /\ join'[c].pc # "exists")
                => (join'[c].pc = "already" <=> ActiveIdsOf(queue, join[c].user) # {})
             /\ (join[c].pc = "add" /\ join'[c].pc = "joined")
                => /\ {i \in Ids : queue'[i] # queue[i]} = {join'[c].made}
                   /\ queue[join'[c].made] = NoDoc
                   /\ queue'[join'[c].made].userId = join[c].user
       /\ RankOrdered(ActiveSnapshot(queue'))]_vars

\* C23 witness: the calls of two different customers ran concurrently (both
\* counted no active entry), both ended joined, and the two entries are at
\* ranks 1 and 2 of the store's result set.
C23_Witness ==
    \E c, b \in Calls :
        /\ join[c].user # join[b].user
        /\ join[c].pc = "joined" /\ join[b].pc = "joined"
        /\ join[c].queueNumber = 1 /\ join[b].queueNumber = 1
        /\ Len(ActiveSnapshot(queue)) = 2
        /\ ActiveSnapshot(queue)[1].id # ActiveSnapshot(queue)[2].id
        /\ {ActiveSnapshot(queue)[1].userId, ActiveSnapshot(queue)[2].userId}
              = {join[c].user, join[b].user}

\* Every observer holds the view derived from the store as it is: the staff
\* table is the active set in rank order, and each customer's position and
\* wait are the estimator's result on it.
AllViewsCurrent ==
    /\ staffQueue["s1"] = ActiveSnapshot(queue)
    /\ \A uid \in Users :
          /\ queuePosition[uid] = PositionOf(ActiveSnapshot(queue), uid)
          /\ estimatedWait[uid] = WaitOf(ActiveSnapshot(queue), uid)

\* C24: with every subscription delivered in the end, the views of all
\* observers eventually equal, and from then on stay equal to, the views
\* derived from the store's final state.
C24_ViewsConverge == <>[]AllViewsCurrent

\* C24 witness: A's entry was started, the store holds it in service, and the
\* dashboard and both status views hold the views of that state.
C24_Witness ==
    /\ op["s1"].st = "ok" /\ op["s1"].newStatus = "in-service"
    /\ Len(ActiveSnapshot(queue)) = 1
    /\ ActiveSnapshot(queue)[1].status = "in-service"
    /\ AllViewsCurrent
    /\ posSnap["A"] = ActiveSnapshot(queue) /\ posSnap["B"] = ActiveSnapshot(queue)

\* The ids of the documents the store holds as waiting or in-service.
WaitingOrInService == {i \in Ids : queue[i] # NoDoc /\ queue[i].status \in {"waiting", "in-service"}}

\* C25: the table a dashboard builds from a delivered snapshot has one row for
\* each entry the store holds as waiting or in-service and no other row, the
\* rows in ascending createdAt order and numbered 1..n; no row of any table
\* shows a completed or removed entry.
C25_StaffTable ==
    [][\A s \in Staff :
          /\ staffQueue'[s] # staffQueue[s] =>
                /\ {TableRows(s)'[k].item.id : k \in 1..Len(staffQueue'[s])}
                      = WaitingOrInService
                /\ Len(staffQueue'[s]) = Cardinality(WaitingOrInService)
                /\ \A k \in 1..Len(staffQueue'[s]) :
                      TableRows(s)'[k].item = Item(queue, TableRows(s)'[k].item.id)
                /\ RankOrdered(staffQueue'[s])
          /\ \A k \in 1..Len(staffQueue'[s]) :
                /\ TableRows(s)'[k].number = k
                /\ TableRows(s)'[k].item.status \in {"waiting", "in-service"}]_vars

\* C25 witness: one entry was completed; the table delivered afterwards has
\* the single row of the entry that joined later and is still waiting.
C25_Witness ==
    /\ Len(staffQueue["s1"]) = 1
    /\ staffQueue["s1"] = ActiveSnapshot(queue)
    /\ TableRows("s1")[1].item.status = "waiting"
    /\ \E i \in Ids : StoredStatus(i) = "completed" /\ TableRows("s1")[1].item.id # i
    /\ TableRows("s1")[1].item.createdAt > 1

\* C26: pressing Remove and pressing Cancel leave the store unchanged; while
\* a selection is pending it is not replaced by another; pressing Confirm
\* sends the delete of the selected id, which removes that document and no
\* other and clears the selection; and a document leaves the store only in
\* the step that applies such a delete.
C26_RemoveAfterConfirm ==
    [][/\ \A s \in Staff :
             /\ (confirmingDelete'[s] # confirmingDelete[s] /\ ~Resolves(s))
                => queue' = queue
             /\ confirmingDelete[s] # 0
                => confirmingDelete'[s] \in {confirmingDelete[s], 0}
             /\ (op'[s] # op[s] /\ op'[s].st = "pending" /\ op'[s].kind = "delete")
                => (op'[s].id = confirmingDelete[s] /\ queue' = queue)
             /\ (Resolves(s) /\ op[s].kind = "delete")
                => /\ queue'[op[s].id] = NoDoc
                   /\ \A j \in Ids \ {op[s].id} : queue'[j] = queue[j]
                   /\ confirmingDelete'[s] = 0
       /\ \A i \in Ids :
             (queue[i] # NoDoc /\ queue'[i] = NoDoc)
             => \E s \in Staff : Resolves(s) /\ op[s].kind = "delete" /\ op[s].id = i]_vars

\* C26 witness: Confirm was pressed for the second row of a two-row table
\* after the other dashboard had put that entry in service; the delete removed
\* that entry, the selection is cleared, and the entry of the first row is
\* still waiting in the store.
C26_Witness ==
    /\ op["s2"].kind = "delete" /\ op["s2"].st = "ok" /\ op["s2"].at = "in-service"
    /\ queue[op["s2"].id] = NoDoc
    /\ confirmingDelete["s2"] = 0
    /\ Len(staffQueue["s2"]) = 2
    /\ staffQueue["s2"][2].id = op["s2"].id
    /\ queue[staffQueue["s2"][1].id] # NoDoc
    /\ queue[staffQueue["s2"][1].id].status = "waiting"

\* Every onAuthStateChanged callback has run to its end.
AuthSettled == ~authLoading /\ \A k \in 1..Len(authCb) : authCb[k].pc = "done"

\* An account record changes only by being created, with role customer.
C27_AccountsKept ==
    [][\A u \in Identities :
          accounts'[u] # accounts[u]
          => (accounts[u] = "none" /\ accounts'[u] = "customer")]_vars

\* C27: an account record changes only by being created with role customer
\* for an identity that had none, and once the callbacks of the
\* authentication events have ended the browser shows the staff dashboard to
\* the signed-in identity exactly when its account role is staff or owner.
C27_AccountAndRoute ==
    [][/\ \A u \in Identities :
             accounts'[u] # accounts[u]
             => (accounts[u] = "none" /\ accounts'[u] = "customer")
       /\ (AuthSettled' /\ user' # "none")
          => (Page' = "dashboard" <=> RoleOf(user)' \in StaffRoles)]_vars

\* The rank of active entry i in the store's createdAt order.
StoreRank(q, i) ==
    CHOOSE k \in 1..Len(ActiveSnapshot(q)) : ActiveSnapshot(q)[k].id = i

\* C28: while an entry stays active (waiting or in-service) its rank among
\* the active entries of the store, ordered by createdAt, never increases
\* from one state to the next.
C28_RankNeverIncreases ==
    [][\A i \in Ids :
          (IsActive(queue[i]) /\ IsActive(queue'[i]))
          => StoreRank(queue', i) <= StoreRank(queue, i)]_vars

\* C29: whenever a status view holds a waiting queueEntry, the position it
\* displays is at least 1 and is the rank, in the result set its position
\* subscription was last delivered, of that same entry.
C29_SubscriptionsAgree ==
    \A uid \in Users :
        (queueEntry[uid] # NoDoc /\ queueEntry[uid].status = "waiting")
        => /\ queuePosition[uid] >= 1
           /\ queuePosition[uid] <= Len(posSnap[uid])
           /\ posSnap[uid][queuePosition[uid]].id = queueEntry[uid].id

====
